---- MODULE Spec2Model ----
(***************************************************************************)
(* pimple-log-stats.py: a streaming converter from a pimpleFoam solver log *)
(* to a 12-column table.  The model follows the Python 2 source: the       *)
(* LogLineRegexp matchers, the LogItemParser object with its properties    *)
(* and dynamically created attributes, slurp/spit, and the _run driver.    *)
(*                                                                         *)
(* A text is modelled as the sequence of its whitespace-separated words.   *)
(***************************************************************************)
EXTENDS Integers, Sequences, FiniteSets, TLC

VARIABLES
    args,       \* parsed command line: input / output path kinds, force flag
    input,      \* the lines of the input stream (fixed for a run)
    pos,        \* number of input lines consumed by fin.next()
    obj,        \* the LogItemParser instance: attribute name -> Python value
    diskOut,    \* contents of the file at the output path (NoFile if absent)
    stdout,     \* lines written to standard output
    stderr,     \* lines written to standard error
    fout,       \* where fout points: "stdout" or "file"
    pc,         \* position of _run
    exitcode,   \* process exit status, NoExit while running
    files,      \* the open() calls made for fin and fout, and what is open
    called,     \* the matchers slurp called on the line last read, in order
    candidate,  \* a LogLineRegexp built and called on its own
    trial       \* how far that matcher got: stage, object passed, result

vars == <<args, input, pos, obj, diskOut, stdout, stderr, fout, pc, exitcode,
          files, called, candidate, trial>>

(***************************************************************************)
(* Bounds of the model.                                                    *)
(***************************************************************************)
MaxLines == 2       \* length of the inputs built from arbitrary lines
MaxCoreLines == 4   \* length of the inputs built from the core lines
MaxExtra == 1       \* unrelated lines interleaved into a well-formed record
MaxGroups == 2      \* capture groups of a matcher built on its own
MaxVars == 2        \* variable names given to a matcher built on its own
MaxArgLines == 2    \* length of the inputs tried with every command line

(***************************************************************************)
(* Python values.                                                          *)
(***************************************************************************)
PyInt(n) == [t |-> "int", n |-> n, s |-> <<>>]
PyStr(w) == [t |-> "str", n |-> 0, s |-> w]
PyBool(b) == [t |-> "bool", n |-> IF b THEN 1 ELSE 0, s |-> <<>>]
Unset == [t |-> "unset", n |-> 0, s |-> <<>>]
NoFile == <<<<"no such file">>>>
NoExit == 0 - 1

\* bool(v) as Python computes it
Truthy(v) ==
    CASE v.t = "int" -> v.n # 0
      [] v.t = "bool" -> v.n = 1
      [] v.t = "str" -> v.s # <<>>
      [] OTHER -> FALSE

\* '{0}'.format(v): an int prints as its decimal numeral, a str as itself
Format(v) ==
    CASE v.t = "int" -> <<ToString(v.n)>>
      [] v.t = "bool" -> IF v.n = 1 THEN <<"True">> ELSE <<"False">>
      [] OTHER -> v.s

(***************************************************************************)
(* Lines of the log.  A line is the shape it has (which of the seven       *)
(* regular expressions finds a match in it, "other" for none) and the      *)
(* texts its capture groups take.  The patterns all start with ^ and a     *)
(* different literal prefix, so a line has one shape.                      *)
(***************************************************************************)
Numeral(i) == ToString(i)
NotANumber == "abc"

\* what (\d+) captures in the arbitrary lines: a numeral
DigitCaps == {<<Numeral(1)>>}
\* what (.+) captures there: a numeral, or a text with a blank in it that
\* is no number
FreeCaps == DigitCaps \cup {<<Numeral(1), NotANumber>>}

Line(shape, caps) == [shape |-> shape, caps |-> caps]

OtherLine == Line("other", <<>>)

(***************************************************************************)
(* LogLineRegexp: the regular expression (its shape and number of groups), *)
(* the variables its groups are assigned to, and the end / match keywords. *)
(***************************************************************************)
None == "None"

LogLineRegexp(shape, groups, varnames, end, match) ==
    [shape |-> shape, groups |-> groups, vars |-> varnames,
     end |-> end, match |-> match]

\* ConstructorRaises objecting only to groups left without a name
ConstructorRaisesWhenMore(regex) == regex.groups > Len(regex.vars)

\* LogLineRegexp.__init__ raises UserWarning when the counts differ
ConstructorRaises(regex) == regex.groups # Len(regex.vars)

\* line_regexps with the ExecutionTime matcher at the end of the list
line_regexps_EndLast == <<
    LogLineRegexp("courant", 2,
                  <<"courant_number_mean", "courant_number_max">>, FALSE, None),
    LogLineRegexp("deltaT", 1, <<"delta_t">>, FALSE, None),
    LogLineRegexp("time", 1, <<"time">>, FALSE, None),
    LogLineRegexp("cont", 3, <<"continuity_errors_local",
                               "continuity_errors_global",
                               "continuity_errors_cumulative">>, FALSE, None),
    LogLineRegexp("conv", 1, <<"niterations">>, FALSE, "converged"),
    LogLineRegexp("notconv", 1, <<"niterations">>, FALSE, "not_converged"),
    LogLineRegexp("exec", 2, <<"execution_time", "clock_time">>, TRUE, None)
>>

\* self._line_regexps, in list order
line_regexps == <<
    LogLineRegexp("exec", 2, <<"execution_time", "clock_time">>, TRUE, None),
    LogLineRegexp("courant", 2,
                  <<"courant_number_mean", "courant_number_max">>, FALSE, None),
    LogLineRegexp("deltaT", 1, <<"delta_t">>, FALSE, None),
    LogLineRegexp("time", 1, <<"time">>, FALSE, None),
    LogLineRegexp("cont", 3, <<"continuity_errors_local",
                               "continuity_errors_global",
                               "continuity_errors_cumulative">>, FALSE, None),
    LogLineRegexp("conv", 1, <<"niterations">>, FALSE, "converged"),
    LogLineRegexp("notconv", 1, <<"niterations">>, FALSE, "not_converged")
>>

\* Search with the "converged in" pattern also finding a match in unrelated text
SearchLoose(regex, line) ==
    \/ regex.shape = line.shape
    \/ regex.shape = "conv" /\ line.shape = "other"

\* self._re.search(line): the pattern finds a match in a line of its shape
Search(regex, line) == regex.shape = line.shape

(***************************************************************************)
(* The LogItemParser instance.  Its state is the instance dictionary; the  *)
(* class adds properties, each reading or writing one underscore           *)
(* attribute.  An attribute the class has no property for is created in    *)
(* the instance dictionary by setattr.                                     *)
(***************************************************************************)
InstanceAttrs == {"_courant_number_mean", "_courant_number_max", "_delta_t",
                  "_time", "_time_index", "_converged", "_converged_in",
                  "_niterations", "_continuity_errors_local",
                  "_continuity_errors_global",
                  "_continuity_errors_cumulative", "_execution_time",
                  "_clock_time",
                  "courant_number_max", "execution_time", "clock_time"}

\* the properties of the class and the attribute each one reads
Getters == [time_index |-> "_time_index",
            courant_number_mean |-> "_courant_number_mean",
            delta_t |-> "_delta_t",
            time |-> "_time",
            niterations |-> "_niterations",
            converged |-> "_converged",
            not_converged |-> "_converged",
            continuity_errors_local |-> "_continuity_errors_local",
            continuity_errors_global |-> "_continuity_errors_global",
            continuity_errors_cumulative |-> "_continuity_errors_cumulative"]

Properties == DOMAIN Getters

\* the properties that have a setter (time_index has none)
Settable == Properties \ {"time_index"}

\* LogItemParser.__init__: the time step item content
NewLogItemParser ==
    [a \in InstanceAttrs |->
        CASE a = "_courant_number_mean" -> PyInt(0)
          [] a = "_courant_number_max" -> PyInt(0)
          [] a = "_time_index" -> PyInt(0)
          [] a = "_converged" -> PyBool(FALSE)
          [] a \in {"courant_number_max", "execution_time", "clock_time"}
               -> Unset
          [] OTHER -> PyInt(0 - 1)]

\* NotConvergedSetter without the negation
NotConvergedSetterPlain(o, val) ==
    [o EXCEPT !["_converged"] = PyBool(Truthy(val))]

\* the not_converged setter: self._converged = not val
NotConvergedSetter(o, val) ==
    [o EXCEPT !["_converged"] = PyBool(~Truthy(val))]

\* SetAttr leaving alone an attribute that already holds a captured text
SetAttrKeepsFirst(o, name, val) ==
    LET a == IF name \in Properties THEN Getters[name] ELSE name IN
    IF name = "not_converged" THEN NotConvergedSetter(o, val)
    ELSE IF o[a].t = "str" THEN o
    ELSE [o EXCEPT ![a] = val]

\* setattr(o, name, val)
SetAttr(o, name, val) ==
    IF name = "not_converged" THEN NotConvergedSetter(o, val)
    ELSE IF name \in Settable THEN [o EXCEPT ![Getters[name]] = val]
    ELSE [o EXCEPT ![name] = val]

\* o.name: Unset stands for the AttributeError of a missing attribute
GetAttr(o, name) ==
    IF name \in Properties THEN o[Getters[name]] ELSE o[name]

(***************************************************************************)
(* LogLineRegexp.__call__                                                  *)
(***************************************************************************)
RECURSIVE SetGroupsNumbersOnly(_, _, _, _)
\* SetGroups assigning a capture only when it is a number
SetGroupsNumbersOnly(regex, caps, i, o) ==
    IF i > Len(caps) THEN o
    ELSE SetGroupsNumbersOnly(regex, caps, i + 1,
            IF Len(caps[i]) = 1 /\ caps[i][1] # NotANumber
            THEN SetAttr(o, regex.vars[i], PyStr(caps[i]))
            ELSE o)

RECURSIVE SetGroups(_, _, _, _)
\* for i, v in enumerate(r.groups()): setattr(obj, self._vars[i], v)
SetGroups(regex, caps, i, o) ==
    IF i > Len(caps) THEN o
    ELSE SetGroups(regex, caps, i + 1, SetAttr(o, regex.vars[i], PyStr(caps[i])))

\* Call raising EndOfItem on every match, whatever the end keyword
CallAlwaysEnds(regex, line, o) ==
    IF ~Search(regex, line) THEN [obj |-> o, result |-> "False"]
    ELSE [obj |-> SetGroups(regex, line.caps, 1, o), result |-> "EndOfItem"]

\* the result is the object after the call and how the call ended:
\* "False", "True" or "EndOfItem" (the exception)
Call(regex, line, o) ==
    IF ~Search(regex, line) THEN [obj |-> o, result |-> "False"]
    ELSE LET o1 == SetGroups(regex, line.caps, 1, o) IN
         IF regex.end THEN [obj |-> o1, result |-> "EndOfItem"]
         ELSE IF regex.match # None
              THEN [obj |-> SetAttr(o1, regex.match, PyBool(TRUE)),
                    result |-> "True"]
              ELSE [obj |-> o1, result |-> "True"]

\* CountItem with the increment forgotten
CountItemForgotten(o) == o

\* slurp, the EndOfItem handler: self._time_index += 1
CountItem(o) == [o EXCEPT !["_time_index"] = PyInt(@.n + 1)]

RECURSIVE ForRegexps(_, _, _)
\* slurp: for regex in self._line_regexps: regex(line, self)
\* an EndOfItem raised by one call leaves the loop
\* called lists the matchers the loop reached
ForRegexps(i, line, o) ==
    IF i > Len(line_regexps)
    THEN [obj |-> o, result |-> "True", called |-> <<>>]
    ELSE LET r == Call(line_regexps[i], line, o) IN
         IF r.result = "EndOfItem"
         THEN [obj |-> r.obj, result |-> "EndOfItem", called |-> <<i>>]
         ELSE [ForRegexps(i + 1, line, r.obj) EXCEPT !.called = <<i>> \o @]

(***************************************************************************)
(* LogItemParser.spit and LogItemParser.header                             *)
(***************************************************************************)
\* SpitAttrs with the last argument left out
SpitAttrsEleven ==
    <<"time_index", "time", "delta_t", "courant_number_mean",
      "courant_number_max", "continuity_errors_local",
      "continuity_errors_global", "continuity_errors_cumulative",
      "niterations", "converged", "execution_time">>

\* SpitAttrs with time and delta_t in each other's place
SpitAttrsSwapped ==
    <<"time_index", "delta_t", "time", "courant_number_mean",
      "courant_number_max", "continuity_errors_local",
      "continuity_errors_global", "continuity_errors_cumulative",
      "niterations", "converged", "execution_time", "clock_time">>

\* the attributes spit formats, in the order of the format string
SpitAttrs == <<"time_index", "time", "delta_t", "courant_number_mean",
               "courant_number_max", "continuity_errors_local",
               "continuity_errors_global", "continuity_errors_cumulative",
               "niterations", "converged", "execution_time", "clock_time">>

\* the i-th argument of format()
SpitArg(o, i) ==
    IF SpitAttrs[i] = "converged"
    THEN (IF Truthy(GetAttr(o, "converged")) THEN PyStr(<<"1">>) ELSE PyInt(0))
    ELSE GetAttr(o, SpitAttrs[i])

\* evaluating the arguments raises AttributeError
SpitRaises(o) == \E i \in 1..Len(SpitAttrs) : GetAttr(o, SpitAttrs[i]) = Unset

RECURSIVE JoinArgs(_, _)
\* '{0} {1} ... {11}\n'.format(...): the words of the line written
JoinArgs(o, i) ==
    IF i > Len(SpitAttrs) THEN <<>>
    ELSE Format(SpitArg(o, i)) \o JoinArgs(o, i + 1)

SpitLine(o) == JoinArgs(o, 1)

header == <<"#", "0_step#", "1_time", "2_dt", "3_Co_mean", "4_Co_max",
            "5_err_local", "6_err_global", "7_err_cumulative", "8_niter",
            "9_converged?", "10_exec_time", "11_clock_time">>

(***************************************************************************)
(* Inputs.  Three bounded families of log files and the command lines.     *)
(***************************************************************************)
RECURSIVE SeqsUpTo(_, _)
\* the sequences over S of length at most n
SeqsUpTo(S, n) ==
    IF n = 0 THEN {<<>>}
    ELSE LET T == SeqsUpTo(S, n - 1) IN
         T \cup {Append(t, x) : t \in {u \in T : Len(u) = n - 1}, x \in S}

\* every line the seven patterns distinguish, with captures from the bounds
AllLines ==
    {OtherLine}
    \cup {Line("exec", <<a, b>>) : a \in FreeCaps, b \in FreeCaps}
    \cup {Line("courant", <<a, b>>) : a \in FreeCaps, b \in FreeCaps}
    \cup {Line("deltaT", <<a>>) : a \in FreeCaps}
    \cup {Line("time", <<a>>) : a \in FreeCaps}
    \cup {Line("cont", <<a, b, c>>) : a \in FreeCaps, b \in FreeCaps, c \in FreeCaps}
    \cup {Line("conv", <<a>>) : a \in DigitCaps}
    \cup {Line("notconv", <<a>>) : a \in DigitCaps}

ArbitraryInputs == SeqsUpTo(AllLines, MaxLines)

\* a few lines with fixed captures, for longer logs of several time steps
CoreLines ==
    {Line("courant", <<<<Numeral(1)>>, <<Numeral(2)>>>>),
     Line("deltaT", <<<<Numeral(1)>>>>),
     Line("deltaT", <<<<Numeral(2), NotANumber>>>>),
     Line("conv", <<<<Numeral(1)>>>>),
     Line("notconv", <<<<Numeral(2)>>>>),
     Line("exec", <<<<Numeral(1)>>, <<Numeral(2)>>>>)}

CoreInputs == SeqsUpTo(CoreLines, MaxCoreLines)

\* the lines of one time step as the solver prints them, every capture a
\* different numeral
RecCap(c) == <<Numeral(10 + c)>>
RecordFieldLines(pimple) ==
    {Line("time", <<RecCap(1)>>),
     Line("deltaT", <<RecCap(2)>>),
     Line("courant", <<RecCap(3), RecCap(4)>>),
     Line("cont", <<RecCap(5), RecCap(6), RecCap(7)>>),
     Line(pimple, <<RecCap(8)>>)}
RecordEndLine == Line("exec", <<RecCap(10), RecCap(11)>>)

RECURSIVE Perms(_)
Perms(S) ==
    IF S = {} THEN {<<>>}
    ELSE UNION {{<<x>> \o p : p \in Perms(S \ {x})} : x \in S}

RECURSIVE WithExtras(_, _)
\* s with at most k unrelated lines put anywhere between its lines
WithExtras(s, k) ==
    IF k = 0 THEN {s}
    ELSE {s} \cup UNION {WithExtras(SubSeq(s, 1, i) \o <<OtherLine>>
                                     \o SubSeq(s, i + 1, Len(s)), k - 1)
                         : i \in 0..Len(s)}

RecordInputs ==
    {Append(t, RecordEndLine) :
        t \in UNION {WithExtras(p, MaxExtra) :
                        p \in UNION {Perms(RecordFieldLines(pimple)) :
                                        pimple \in {"conv", "notconv"}}}}

Inputs == ArbitraryInputs \cup CoreInputs \cup RecordInputs

\* args.input / args.output: not given, a path that exists, a path that
\* does not exist; args.force
Args == [inp : {"stdin", "exists", "missing"},
         outp : {"stdout", "exists", "missing"},
         force : BOOLEAN]
DefaultArgs == [inp |-> "stdin", outp |-> "stdout", force |-> FALSE]

\* what a file found at the output path holds before the run
OldContents == <<<<"old", "contents">>>>

NotConstructed == [a \in InstanceAttrs |-> Unset]

\* the streams _run may open with open(); sys.stdin and sys.stdout are not
\* opened by the program
FileNames == {"fin", "fout"}

NoFilesOpened == [opens |-> [f \in FileNames |-> 0], open |-> {}]

\* open(path, mode) bound to fin or fout
OpenFile(f, name) ==
    [opens |-> [f.opens EXCEPT ![name] = @ + 1], open |-> f.open \cup {name}]

\* Exit leaving the file objects as they are
ExitLeavesOpen(f) == f

\* sys.exit(...) or the uncaught exception ends the interpreter, which
\* closes every file object still open
Exit(f) == [f EXCEPT !.open = {}]

\* no matcher is being tried on its own
NoTrial == [stage |-> "none", obj |-> NotConstructed, result |-> None,
            line |-> OtherLine]

Init ==
    /\ \/ args \in Args /\ input \in SeqsUpTo(CoreLines, MaxArgLines)
       \/ args = DefaultArgs /\ input \in Inputs
    /\ pos = 0
    /\ obj = NotConstructed
    /\ diskOut = IF args.outp = "exists" THEN OldContents ELSE NoFile
    /\ stdout = <<>>
    /\ stderr = <<>>
    /\ fout = "stdout"
    /\ pc = "open_input"
    /\ exitcode = NoExit
    /\ files = NoFilesOpened
    /\ called = <<>>
    /\ candidate = line_regexps[1]
    /\ trial = NoTrial

(***************************************************************************)
(* _run                                                                    *)
(***************************************************************************)
\* an exception nothing catches: the traceback goes to stderr, exit status 1
Uncaught(exc) ==
    /\ stderr' = Append(stderr, exc)
    /\ exitcode' = 1
    /\ pc' = "failed"
    /\ files' = Exit(files)

(***************************************************************************)
(* A LogLineRegexp used on its own: any pattern with up to MaxGroups       *)
(* capture groups, any variable names, either value of end, any match      *)
(* flag; it is constructed, then called once on a line and a new object.   *)
(***************************************************************************)
TrialNames == {"time", "delta_t"}

Candidates ==
    {LogLineRegexp("trial", g, v, e, m) :
        g \in 0..MaxGroups, v \in SeqsUpTo(TrialNames, MaxVars),
        e \in BOOLEAN, m \in {None, "converged", "not_converged"}}

\* lines the pattern of a matcher finds a match in, each group capturing
\* some text, and a line it finds none in
TrialLines(regex) ==
    {Line(regex.shape, caps) : caps \in [1..regex.groups -> FreeCaps]}
        \cup {OtherLine}

\* LogLineRegexp(regexp, *varnames, end=..., match=...), lines 70-72
NewLogLineRegexp ==
    /\ trial.stage = "new"
    /\ trial' = [trial EXCEPT !.stage = IF ConstructorRaises(candidate)
                                        THEN "UserWarning"
                                        ELSE "constructed"]
    /\ UNCHANGED <<candidate, called, files>>
    /\ UNCHANGED <<args, input, pos, obj, diskOut, stdout, stderr, fout, pc,
                   exitcode>>

\* regex(line, obj) on a new LogItemParser
CallRegexp ==
    /\ trial.stage = "constructed"
    /\ \E line \in TrialLines(candidate) :
          LET r == Call(candidate, line, NewLogItemParser) IN
          trial' = [stage |-> "called", obj |-> r.obj, result |-> r.result,
                    line |-> line]
    /\ UNCHANGED <<candidate, called, files>>
    /\ UNCHANGED <<args, input, pos, obj, diskOut, stdout, stderr, fout, pc,
                   exitcode>>

\* fout.write(line)
Write(line) ==
    IF fout = "file"
    THEN diskOut' = Append(diskOut, line) /\ UNCHANGED stdout
    ELSE stdout' = Append(stdout, line) /\ UNCHANGED diskOut

\* line 280: not exists(args.input[0])
InputMissing(a) == a.inp = "missing"

\* WontOverwrite with the force flag read the wrong way round
WontOverwriteInverted(a) == a.outp = "exists" /\ a.force

\* line 284: exists(args.output[0]) and not args.force
WontOverwrite(a) == a.outp = "exists" /\ ~a.force

\* lines 279-282
OpenInput ==
    /\ pc = "open_input"
    /\ IF InputMissing(args)
       THEN Uncaught("IOError: does not exist")
       ELSE /\ pc' = "open_output"
            /\ files' = IF args.inp = "stdin" THEN files
                        ELSE OpenFile(files, "fin")
            /\ UNCHANGED <<stderr, exitcode>>
    /\ UNCHANGED <<candidate, trial, called>>
    /\ UNCHANGED <<args, input, pos, obj, diskOut, stdout, fout>>

\* lines 283-286; open(..., 'w') creates the file or truncates it
OpenOutput ==
    /\ pc = "open_output"
    /\ IF args.outp = "stdout"
       THEN /\ pc' = "construct"
            /\ UNCHANGED <<diskOut, fout, stderr, exitcode, files>>
       ELSE IF WontOverwrite(args)
       THEN /\ Uncaught("IOError: exists, wont overwrite")
            /\ UNCHANGED <<diskOut, fout>>
       ELSE /\ diskOut' = <<>>
            /\ fout' = "file"
            /\ files' = OpenFile(files, "fout")
            /\ pc' = "construct"
            /\ UNCHANGED <<stderr, exitcode>>
    /\ UNCHANGED <<candidate, trial, called>>
    /\ UNCHANGED <<args, input, pos, obj, stdout>>

\* line 292
Construct ==
    /\ pc = "construct"
    /\ IF \E i \in 1..Len(line_regexps) : ConstructorRaises(line_regexps[i])
       THEN Uncaught("UserWarning") /\ UNCHANGED obj
       ELSE /\ obj' = NewLogItemParser
            /\ pc' = "header"
            /\ UNCHANGED <<stderr, exitcode, files>>
    /\ UNCHANGED <<candidate, trial, called>>
    /\ UNCHANGED <<args, input, pos, diskOut, stdout, fout>>

\* line 294
WriteHeader ==
    /\ pc = "header"
    /\ Write(header)
    /\ pc' = "slurp"
    /\ UNCHANGED <<candidate, trial, called>>
    /\ UNCHANGED <<args, input, pos, obj, stderr, fout, exitcode, files>>

\* SlurpLine counting every line as an item
SlurpLineCounts ==
    /\ pc = "slurp"
    /\ pos < Len(input)
    /\ LET r == ForRegexps(1, input[pos + 1], obj) IN
        /\ r.result # "EndOfItem"
        /\ obj' = CountItem(r.obj)
        /\ called' = r.called
    /\ pos' = pos + 1
    /\ UNCHANGED <<candidate, trial>>
    /\ UNCHANGED <<args, input, diskOut, stdout, stderr, fout, pc, exitcode,
                   files>>

\* slurp, one turn of its while loop: a line that ends no item
SlurpLine ==
    /\ pc = "slurp"
    /\ pos < Len(input)
    /\ LET r == ForRegexps(1, input[pos + 1], obj) IN
        /\ r.result # "EndOfItem"
        /\ obj' = r.obj
        /\ called' = r.called
    /\ pos' = pos + 1
    /\ UNCHANGED <<candidate, trial>>
    /\ UNCHANGED <<args, input, diskOut, stdout, stderr, fout, pc, exitcode,
                   files>>

\* slurp: the line raises EndOfItem, the handler counts the item, slurp returns
SlurpEndOfItem ==
    /\ pc = "slurp"
    /\ pos < Len(input)
    /\ LET r == ForRegexps(1, input[pos + 1], obj) IN
        /\ r.result = "EndOfItem"
        /\ obj' = CountItem(r.obj)
        /\ called' = r.called
    /\ pos' = pos + 1
    /\ pc' = "spit"
    /\ UNCHANGED <<candidate, trial>>
    /\ UNCHANGED <<args, input, diskOut, stdout, stderr, fout, exitcode,
                   files>>

\* SlurpNoMoreItems with nothing catching NoMoreItems
SlurpNoMoreItemsUncaught ==
    /\ pc = "slurp"
    /\ pos = Len(input)
    /\ Uncaught("NoMoreItems")
    /\ UNCHANGED <<candidate, trial, called>>
    /\ UNCHANGED <<args, input, pos, obj, diskOut, stdout, fout>>

\* SlurpNoMoreItems writing the item it was reading before it stops
SlurpNoMoreItemsFlushes ==
    /\ pc = "slurp"
    /\ pos = Len(input)
    /\ IF SpitRaises(obj)
       THEN UNCHANGED <<diskOut, stdout>>
       ELSE Write(SpitLine(obj))
    /\ stderr' = Append(stderr, "Finished parsing log file.")
    /\ exitcode' = 0
    /\ pc' = "finished"
    /\ files' = Exit(files)
    /\ UNCHANGED <<candidate, trial, called>>
    /\ UNCHANGED <<args, input, pos, obj, fout>>

\* slurp: fin.next() raises StopIteration, slurp raises NoMoreItems, and
\* _run (lines 298-300) reports and returns 0
SlurpNoMoreItems ==
    /\ pc = "slurp"
    /\ pos = Len(input)
    /\ stderr' = Append(stderr, "Finished parsing log file.")
    /\ exitcode' = 0
    /\ pc' = "finished"
    /\ files' = Exit(files)
    /\ UNCHANGED <<candidate, trial, called>>
    /\ UNCHANGED <<args, input, pos, obj, diskOut, stdout, fout>>

\* line 297
Spit ==
    /\ pc = "spit"
    /\ IF SpitRaises(obj)
       THEN Uncaught("AttributeError") /\ UNCHANGED <<diskOut, stdout>>
       ELSE /\ Write(SpitLine(obj))
            /\ pc' = "slurp"
            /\ UNCHANGED <<stderr, exitcode, files>>
    /\ UNCHANGED <<candidate, trial, called>>
    /\ UNCHANGED <<args, input, pos, obj, fout>>

Next ==
    \/ OpenInput
    \/ OpenOutput
    \/ Construct
    \/ WriteHeader
    \/ SlurpLine
    \/ SlurpEndOfItem
    \/ SlurpNoMoreItems
    \/ Spit

Spec == Init /\ [][Next]_vars

\* the interpreter runs the program to its end
FairSpec == Spec /\ WF_vars(Next)

\* a matcher used on its own, and the construction of the LogItemParser with
\* its seven matchers once _run has set fin and fout to the standard streams
MatcherInit ==
    /\ args = DefaultArgs
    /\ input = <<>>
    /\ pos = 0
    /\ obj = NotConstructed
    /\ diskOut = NoFile
    /\ stdout = <<>>
    /\ stderr = <<>>
    /\ fout = "stdout"
    /\ pc = "construct"
    /\ exitcode = NoExit
    /\ files = NoFilesOpened
    /\ called = <<>>
    /\ candidate \in Candidates
    /\ trial = [NoTrial EXCEPT !.stage = "new"]

MatcherNext ==
    \/ NewLogLineRegexp
    \/ CallRegexp
    \/ Construct

MatcherSpec == MatcherInit /\ [][MatcherNext]_vars

\* the stream fout writes to
Out == IF fout = "file" THEN diskOut ELSE stdout

TypeOK ==
    /\ args \in Args
    /\ pos \in 0..Len(input)
    /\ pc \in {"open_input", "open_output", "construct", "header", "slurp",
               "spit", "finished", "failed"}
    /\ exitcode \in {NoExit, 0, 1}
    /\ fout \in {"stdout", "file"}

(***************************************************************************)
(* What the properties below speak of: the data rows of the output, the    *)
(* end-of-record lines of the input, the time step each row belongs to.    *)
(***************************************************************************)
NumRows == IF Out = <<>> THEN 0 ELSE Len(Out) - 1
Row(k) == Out[k + 1]

Count(inp, shapes) == Cardinality({i \in 1..Len(inp) : inp[i].shape \in shapes})
TheLine(inp, shapes) == inp[CHOOSE i \in 1..Len(inp) : inp[i].shape \in shapes]

\* the position of the k-th end-of-record line, 0 for k = 0
ExecPos(inp, k) ==
    IF k = 0 THEN 0
    ELSE CHOOSE i \in 1..Len(inp) :
            /\ inp[i].shape = "exec"
            /\ Cardinality({j \in 1..i : inp[j].shape = "exec"}) = k

\* the command line asks for a file that is missing or must not be overwritten
ResourceError ==
    \/ args.inp = "missing"
    \/ args.outp = "exists" /\ ~args.force

RECURSIVE Flatten(_)
Flatten(texts) ==
    IF texts = <<>> THEN <<>> ELSE Head(texts) \o Flatten(Tail(texts))

\* the lines of exactly one well-formed record, in any order, among unrelated
\* lines, ended by the ExecutionTime line
WellFormedRecord(inp) ==
    /\ Len(inp) >= 6
    /\ inp[Len(inp)].shape = "exec"
    /\ Count(inp, {"exec"}) = 1
    /\ \A s \in {"time", "courant", "deltaT", "cont"} : Count(inp, {s}) = 1
    /\ Count(inp, {"conv", "notconv"}) = 1

\* columns 1..11 as the lines of the record give them
CapturedColumns(inp) ==
    LET pimple == TheLine(inp, {"conv", "notconv"}) IN
    <<TheLine(inp, {"time"}).caps[1],
      TheLine(inp, {"deltaT"}).caps[1],
      TheLine(inp, {"courant"}).caps[1],
      TheLine(inp, {"courant"}).caps[2],
      TheLine(inp, {"cont"}).caps[1],
      TheLine(inp, {"cont"}).caps[2],
      TheLine(inp, {"cont"}).caps[3],
      pimple.caps[1],
      IF pimple.shape = "conv" THEN <<"1">> ELSE <<"0">>,
      TheLine(inp, {"exec"}).caps[1],
      TheLine(inp, {"exec"}).caps[2]>>

\* C1: for an input that is the lines of exactly one well-formed record, the
\* run ends with the header followed by exactly one data row, and columns
\* 1..11 of that row are the values captured from the record's lines, in the
\* fixed order time, delta_t, Courant mean, Courant max, the three continuity
\* errors, niterations, converged, execution_time, clock_time.
C1_OneRecordOneRow ==
    (WellFormedRecord(input) /\ ~ResourceError) =>
        /\ NumRows <= 1
        /\ exitcode # NoExit =>
            /\ pc = "finished"
            /\ Len(Out) = 2
            /\ Out[1] = header
            /\ Tail(Out[2]) = Flatten(CapturedColumns(input))

C1_Witness ==
    /\ pc = "finished"
    /\ WellFormedRecord(input)
    /\ Len(input) = 7
    /\ input[1].shape = "cont"
    /\ input[2].shape = "other"
    /\ TheLine(input, {"conv", "notconv"}).shape = "notconv"
    /\ NumRows = 1

\* C2 as stated: the k-th emitted row (k = 0, 1, 2, ...) has time_index k.
C2_Original_IndexFromZero ==
    \A k \in 1..NumRows : Row(k)[1] = ToString(k - 1)

\* C2, amended: the time_index column of the k-th emitted data row
\* (k = 0, 1, 2, ...) equals k + 1: the first completed record is written with
\* time_index 1 and every later row's time_index is one more than the
\* previous row's, whatever the time values of the records.
C2_IndexFromOne ==
    \A k \in 1..NumRows : Row(k)[1] = ToString(k)

C2_Witness ==
    /\ NumRows = 3
    /\ pc = "slurp"

\* every captured text of the input is one word
SingleWords(inp) ==
    \A i \in 1..Len(inp) : \A g \in 1..Len(inp[i].caps) : Len(inp[i].caps[g]) = 1

\* the lines whose captures fill columns 1..9, and the defaults of the columns
ColumnShapes == <<{"time"}, {"deltaT"}, {"courant"}, {"courant"},
                  {"cont"}, {"cont"}, {"cont"},
                  {"conv", "notconv"}, {"conv", "notconv"}>>
ColumnDefault == <<"-1", "-1", "0", "0", "-1", "-1", "-1", "-1", "0">>

\* a line of one of the shapes occurs among the lines of the k-th record
OccursInRecord(inp, k, shapes) ==
    \E i \in (ExecPos(inp, k - 1) + 1)..ExecPos(inp, k) : inp[i].shape \in shapes

\* C3 as stated: each record starts from the defaults, so the row of a second
\* or later record shows the default in every column whose line did not occur
\* among that record's lines, never a value captured in an earlier record.
C3_Original_FreshRecord ==
    SingleWords(input) =>
        \A k \in 2..NumRows : \A c \in 1..Len(ColumnShapes) :
            ~OccursInRecord(input, k, ColumnShapes[c])
                => Row(k)[c + 1] = ColumnDefault[c]

\* the last PIMPLE line among the first i lines, 0 if there is none
LastPimple(inp, i) ==
    LET P == {j \in 1..i : inp[j].shape \in {"conv", "notconv"}} IN
    IF P = {} THEN 0 ELSE CHOOSE j \in P : \A l \in P : l <= j

\* the converged column the lines up to i ask for
ConvergedAsked(inp, i) ==
    LET m == LastPimple(inp, i) IN
    IF m # 0 /\ inp[m].shape = "conv" THEN "1" ELSE "0"

\* C4: in every emitted row the converged column is "1" exactly when the most
\* recent matcher to set converged was the "converged in N" pattern, and "0"
\* when it was the "not converged within N" pattern or converged was never
\* set; both patterns set niterations to the captured N.
C4_ConvergedColumn ==
    /\ pc = "spit" /\ ~SpitRaises(obj) =>
          Format(SpitArg(obj, 10)) = <<ConvergedAsked(input, pos)>>
    /\ \A k \in 1..NumRows :
          LET m == LastPimple(input, ExecPos(input, k)) IN
          Len(Row(k)) = 12 =>
              /\ Row(k)[10] = ConvergedAsked(input, ExecPos(input, k))
              /\ m # 0 => <<Row(k)[9]>> = input[m].caps[1]

C4_Witness ==
    \E k \in 1..NumRows :
        LET m == LastPimple(input, ExecPos(input, k)) IN
        /\ Len(Row(k)) = 12
        /\ Row(k)[10] = "0"
        /\ m # 0
        /\ input[m].shape = "notconv"
        /\ \E j \in 1..(m - 1) : input[j].shape = "conv"

\* C5: for an input without an end-of-record line, whatever else it holds,
\* the output is the header line and no data row.
C5_NoEndMarkerHeaderOnly ==
    (Count(input, {"exec"}) = 0 /\ ~ResourceError) =>
        /\ NumRows = 0
        /\ pc \notin {"spit", "failed"}
        /\ pc \in {"slurp", "finished"} => Out = <<header>>

C5_Witness ==
    /\ pc = "finished"
    /\ Count(input, {"exec"}) = 0
    /\ Count(input, {"courant"}) > 0
    /\ Count(input, {"conv"}) > 0
    /\ Len(input) >= 3
    /\ Out = <<header>>

\* C6: the lines read after the last end-of-record line never produce a row:
\* once no end-of-record line is left, reading on changes no output and ends
\* in "no more records", and at the end there are as many rows as
\* end-of-record lines.
C6_PartialRecordDiscarded ==
    /\ [](pc = "finished" => NumRows = Count(input, {"exec"}))
    /\ [][(pc = "slurp" /\ \A i \in (pos + 1)..Len(input) : input[i].shape # "exec")
            => (Out' = Out /\ pc' \in {"slurp", "finished"})]_vars

C6_Witness ==
    /\ pc = "finished"
    /\ NumRows = 1
    /\ Len(input) >= 3
    /\ input[Len(input) - 1].shape = "exec"
    /\ input[Len(input)].shape = "deltaT"

\* the file at the output path as the run found it
InitialDisk == IF args.outp = "exists" THEN OldContents ELSE NoFile

\* C7: when the output path exists and force is absent, or the input file is
\* missing, the run fails with a non-zero exit before any processing: no line
\* is read, the output file is not opened, truncated or written, not even the
\* header, and an existing output file keeps its contents.
C7_ResourceErrorNoEffect ==
    ResourceError =>
        /\ pc \in {"open_input", "open_output", "failed"}
        /\ pc = "failed" => exitcode = 1
        /\ exitcode # 0
        /\ diskOut = InitialDisk
        /\ stdout = <<>>
        /\ fout = "stdout"
        /\ pos = 0

C7_Witness ==
    /\ pc = "failed"
    /\ args.inp = "exists"
    /\ args.outp = "exists"
    /\ ~args.force
    /\ diskOut = OldContents
    /\ input # <<>>

\* a captured text that is a number: one word, and a numeral
IsNumber(text) == Len(text) = 1 /\ text[1] # NotANumber

\* a line one of the patterns matches with a capture that is no number
Malformed(line) ==
    /\ line.shape # "other"
    /\ \E g \in 1..Len(line.caps) : ~IsNumber(line.caps[g])

\* the variables the pattern of a line's shape assigns
VarsOf(line) ==
    line_regexps[CHOOSE i \in 1..Len(line_regexps) :
                    line_regexps[i].shape = line.shape].vars

\* C8 as stated: a line with a capture that is no number aborts the run on
\* that line with a non-zero exit, and no row ever holds such a value.
C8_Original_ParseErrorFatal ==
    /\ \A i \in 1..pos :
          Malformed(input[i]) => (pos = i /\ pc = "failed" /\ exitcode = 1)
    /\ \A k \in 1..NumRows : \A w \in 1..Len(Row(k)) : Row(k)[w] # NotANumber

\* C8, amended: a matched capture is never converted to a number, so there is
\* no parse error: whatever text a group captures, a number or not, is stored
\* as it is and the run goes on; the only failure after the file checks is
\* the missing courant_number_max attribute; the row of the record is the
\* stored texts as they are, ending with the captures of its end-of-record
\* line; and the rows written before remain.
C8_NoConversion ==
    /\ [](/\ (pos >= 1 /\ pc \in {"slurp", "spit"} /\ input[pos].shape # "other") =>
                \A g \in 1..Len(input[pos].caps) :
                    GetAttr(obj, VarsOf(input[pos])[g]) = PyStr(input[pos].caps[g])
          /\ (pc = "failed" /\ ~ResourceError) =>
                /\ obj["courant_number_max"] = Unset
                /\ \A i \in 1..pos : input[i].shape # "courant"
          /\ (pc = "slurp" /\ pos >= 1 /\ input[pos].shape = "exec") =>
                /\ NumRows >= 1
                /\ Out[Len(Out)] = SpitLine(obj)
          /\ \A k \in 1..NumRows :
                LET e == Flatten(input[ExecPos(input, k)].caps)
                    r == Row(k) IN
                /\ Len(r) > Len(e)
                /\ SubSeq(r, Len(r) - Len(e) + 1, Len(r)) = e)
    /\ [][(pc \in {"slurp", "spit"}) =>
            (Len(Out') >= Len(Out) /\ SubSeq(Out', 1, Len(Out)) = Out)]_vars

C8_Witness ==
    /\ pc = "finished"
    /\ exitcode = 0
    /\ NumRows = 2
    /\ \A w \in 1..Len(Row(1)) : Row(1)[w] # NotANumber
    /\ \E w \in 1..Len(Row(2)) : Row(2)[w] = NotANumber

\* the lines among the first i whose captures are the stored values then:
\* for each pattern the last line it matched (the two PIMPLE patterns assign
\* the same variable)
Feeding(inp, i) ==
    {j \in 1..i :
        /\ inp[j].shape # "other"
        /\ \A l \in (j + 1)..i :
              /\ inp[l].shape # inp[j].shape
              /\ ~({inp[l].shape, inp[j].shape} = {"conv", "notconv"})}

\* the header is the first line written, once, before any line is read
HeaderFirst ==
    /\ pc \in {"open_input", "open_output", "construct", "header"} =>
          (pos = 0 /\ Out = <<>>)
    /\ pc \in {"slurp", "spit", "finished"} => Len(Out) >= 1
    /\ pos > 0 => Len(Out) >= 1
    /\ Len(Out) >= 1 =>
          /\ Out[1] = header
          /\ \A k \in 2..Len(Out) : Out[k] # header /\ Out[k][1] # "#"

\* C9 as stated: the header comes first and once, before the first line is
\* read, and every later line has exactly 12 whitespace-separated fields.
C9_Original_TwelveFields ==
    /\ HeaderFirst
    /\ \A k \in 1..NumRows : Len(Row(k)) = 12

\* C9, amended: in every run that gets past the argument and file checks the
\* header is the first line written, written once and before the first input
\* line is consumed; every later output line is a data row of 12 values
\* joined by single blanks, which has exactly 12 whitespace-separated fields
\* whenever each captured text written in it is a single word.
C9_HeaderThenRows ==
    /\ HeaderFirst
    /\ \A k \in 1..NumRows :
          (\A j \in Feeding(input, ExecPos(input, k)) :
              \A g \in 1..Len(input[j].caps) : Len(input[j].caps[g]) = 1)
            => Len(Row(k)) = 12

C9_Witness ==
    /\ pc = "finished"
    /\ NumRows = 2
    /\ Len(Row(1)) = 12
    /\ Len(Row(2)) = 13
    /\ Out[1] = header

\* C10: the driver's run over a finite input ends: it finishes exactly when
\* the input is exhausted, also in the middle of a record, reports it and
\* exits with 0, unless a fatal error ends it with a non-zero exit; nothing
\* is written after it has finished.
C10_Terminates ==
    /\ <>(pc \in {"finished", "failed"})
    /\ [](pc = "finished" =>
            /\ pos = Len(input)
            /\ exitcode = 0
            /\ stderr = <<"Finished parsing log file.">>)
    /\ [](pc = "failed" => exitcode = 1)
    /\ [](exitcode # NoExit <=> pc \in {"finished", "failed"})
    /\ [][(pc = "slurp" /\ pos = Len(input)) => pc' = "finished"]_vars
    /\ [][(pc = "finished") => (diskOut' = diskOut /\ stdout' = stdout)]_vars

C10_Witness ==
    /\ pc = "finished"
    /\ exitcode = 0
    /\ NumRows = 1
    /\ input[Len(input)].shape = "conv"
    /\ pos = Len(input)

\* C11 as stated: when the first end-of-record line arrives a row is written,
\* and every column whose line has not occurred shows its default: -1 for
\* time, delta_t, the continuity errors and niterations, 0 for the two
\* Courant columns and for converged; a first record without a Courant line
\* still gives a row.
C11_Original_DefaultsInFirstRow ==
    (SingleWords(input) /\ ~ResourceError /\ Count(input, {"exec"}) >= 1) =>
        /\ pc # "failed"
        /\ pos >= ExecPos(input, 1) /\ pc \in {"slurp", "finished"} => NumRows >= 1
        /\ NumRows >= 1 =>
              \A c \in 1..Len(ColumnShapes) :
                  ~OccursInRecord(input, 1, ColumnShapes[c])
                      => Row(1)[c + 1] = ColumnDefault[c]

\* the names a matcher of the fixed list can assign
AssignedNames ==
    UNION {{line_regexps[i].vars[g] : g \in 1..Len(line_regexps[i].vars)}
              \cup {line_regexps[i].match} : i \in 1..Len(line_regexps)}

\* C12: time_index changes only when a record is completed, and then by
\* exactly +1: consuming a non-matching line, a matching line that does not
\* end the record, or reaching the end of the input leaves it unchanged; no
\* matcher of the list names it; it is never reset or decreased in a run.
C12_TimeIndexOnlyAtCompletion ==
    /\ [][(obj["_time_index"] # obj'["_time_index"]) =>
            \/ pc = "construct" /\ obj'["_time_index"] = PyInt(0)
            \/ /\ pc = "slurp" /\ pc' = "spit"
               /\ pos' = pos + 1
               /\ input[pos + 1].shape = "exec"
               /\ obj'["_time_index"] = PyInt(obj["_time_index"].n + 1)]_vars
    /\ [](AssignedNames \cap {"time_index", "_time_index"} = {})

C12_Witness ==
    /\ pc = "finished"
    /\ obj["_time_index"] = PyInt(1)
    /\ Count(input, {"exec"}) = 1
    /\ input[Len(input)].shape \notin {"exec", "other"}

\* the input without the lines that match none of the seven patterns
Strip(inp) == SelectSeq(inp, LAMBDA l : l.shape # "other")

RECURSIVE OutputOf(_, _, _, _)
\* what a run without resource error writes for the lines i.. of inp, and
\* its exit status, starting from object o and the lines out already written
OutputOf(inp, i, o, out) ==
    IF i > Len(inp) THEN [out |-> out, exit |-> 0]
    ELSE LET r == ForRegexps(1, inp[i], o) IN
         IF r.result # "EndOfItem" THEN OutputOf(inp, i + 1, r.obj, out)
         ELSE LET o1 == CountItem(r.obj) IN
              IF SpitRaises(o1) THEN [out |-> out, exit |-> 1]
              ELSE OutputOf(inp, i + 1, o1, Append(out, SpitLine(o1)))

\* C13: a line that matches none of the seven patterns leaves the whole
\* record state unchanged and writes nothing; so the output and exit status
\* of a run are those of the same input with every non-matching line deleted.
C13_NonMatchingLinesIgnored ==
    /\ [][(pc = "slurp" /\ pos < Len(input) /\ input[pos + 1].shape = "other") =>
            /\ obj' = obj
            /\ <<diskOut, stdout, stderr, fout, exitcode>>'
                  = <<diskOut, stdout, stderr, fout, exitcode>>
            /\ pc' = "slurp"
            /\ pos' = pos + 1]_vars
    /\ []((exitcode # NoExit /\ ~ResourceError) =>
            LET r == OutputOf(Strip(input), 1, NewLogItemParser, <<header>>) IN
            Out = r.out /\ exitcode = r.exit)

C13_Witness ==
    /\ pc = "finished"
    /\ NumRows = 1
    /\ Count(input, {"other"}) >= 1
    /\ input[1].shape # "other"
    /\ \E i \in 2..ExecPos(input, 1) : input[i].shape = "other"

\* the last line of one of the shapes among the first i lines, 0 if none
LastOf(inp, i, shapes) ==
    LET P == {j \in 1..i : inp[j].shape \in shapes} IN
    IF P = {} THEN 0 ELSE CHOOSE j \in P : \A l \in P : l <= j

\* the capture group of its line that each of columns 1..8 shows
ColumnGroup == <<1, 1, 1, 2, 1, 2, 3, 1>>

\* the instance attribute behind a name given to setattr
StorageOf(name) == IF name \in Properties THEN Getters[name] ELSE name

\* the attributes a line may change: those of the fields its matcher names,
\* the flag its matcher sets, and the item counter on the line ending an item
TargetsOf(line) ==
    LET regex == line_regexps[CHOOSE i \in 1..Len(line_regexps) :
                                line_regexps[i].shape = line.shape] IN
    {StorageOf(regex.vars[g]) : g \in 1..Len(regex.vars)}
        \cup (IF regex.match = None THEN {} ELSE {StorageOf(regex.match)})
        \cup (IF regex.end THEN {"_time_index"} ELSE {})

\* C14: when a line shape occurs more than once before the end-of-record
\* line the row carries the values of its last occurrence, and a matching
\* line changes only the fields its own matcher names, every other field of
\* the record staying as it was.
C14_LastMatchWins ==
    /\ [][(pc = "slurp" /\ pos' = pos + 1 /\ input[pos + 1].shape # "other") =>
            LET line == input[pos + 1] IN
            /\ \A a \in InstanceAttrs \ TargetsOf(line) : obj'[a] = obj[a]
            /\ \A g \in 1..Len(line.caps) :
                  GetAttr(obj', VarsOf(line)[g]) = PyStr(line.caps[g])]_vars
    /\ [](\A k \in 1..NumRows : Len(Row(k)) = 12 =>
            /\ \A c \in 1..Len(ColumnGroup) :
                  LET m == LastOf(input, ExecPos(input, k), ColumnShapes[c]) IN
                  m # 0 => <<Row(k)[c + 1]>> = input[m].caps[ColumnGroup[c]]
            /\ <<Row(k)[11]>> = input[ExecPos(input, k)].caps[1]
            /\ <<Row(k)[12]>> = input[ExecPos(input, k)].caps[2])

C14_Witness ==
    \E k \in 1..NumRows :
        LET last == LastOf(input, ExecPos(input, k), {"conv", "notconv"}) IN
        /\ Len(Row(k)) = 12
        /\ last > ExecPos(input, k - 1) + 1
        /\ \E j \in (ExecPos(input, k - 1) + 1)..(last - 1) :
              /\ input[j].shape \in {"conv", "notconv"}
              /\ input[j].caps # input[last].caps
        /\ <<Row(k)[9]>> = input[last].caps[1]

\* the whole list, in list order
AllMatchers == [i \in 1..Len(line_regexps) |-> i]

\* C15 as stated: on every line read all seven matchers are evaluated in
\* list order, the line of the end-of-record matcher included, and the
\* end-of-record matcher is the last of the list.
C15_Original_EveryMatcherEveryLine ==
    pos >= 1 =>
        /\ called = AllMatchers
        /\ line_regexps[called[Len(called)]].end

\* C15, amended: for every line read the matchers of the fixed list are
\* evaluated in list order until one signals end of record, each one that
\* matches being applied; the end-of-record matcher is first in the list, so
\* on a line other than the end-of-record line all seven are evaluated, and
\* on the end-of-record line it alone is evaluated and applied.
C15_EvaluationStopsAtEndMatcher ==
    /\ line_regexps[1].end
    /\ \A i \in 2..Len(line_regexps) : ~line_regexps[i].end
    /\ pos >= 1 =>
          /\ called = IF Search(line_regexps[1], input[pos]) THEN <<1>>
                      ELSE AllMatchers
          /\ (pc \in {"slurp", "spit"} /\ input[pos].shape # "other") =>
                \A g \in 1..Len(input[pos].caps) :
                    GetAttr(obj, VarsOf(input[pos])[g]).s = input[pos].caps[g]

C15_Witness ==
    /\ pc = "spit"
    /\ called = <<1>>
    /\ pos >= 2
    /\ obj["execution_time"] = PyStr(input[pos].caps[1])

\* the end-of-record lines among the first i lines of the input
EndLinesUpTo(inp, i) == Cardinality({j \in 1..i : inp[j].shape = "exec"})

\* C18 as stated: for any finite input the number of data rows written
\* equals the number of end-of-record lines of the input, the rows in the
\* order of those lines, each row written before a later line is consumed.
C18_Original_RowPerEndLine ==
    ~ResourceError =>
        /\ exitcode # NoExit => NumRows = Count(input, {"exec"})
        /\ pc = "slurp" => NumRows = EndLinesUpTo(input, pos)
        /\ \A k \in 1..NumRows : Row(k)[1] = ToString(k)

C16_ConstructionChecksCounts ==
    /\ trial.stage \notin {"none", "new"} =>
          (trial.stage = "UserWarning"
              <=> candidate.groups # Len(candidate.vars))
    /\ \A i \in 1..Len(line_regexps) :
          line_regexps[i].groups = Len(line_regexps[i].vars)
    /\ pc \in {"construct", "header"}
    /\ stderr = <<>>
    /\ pc = "header" => obj = NewLogItemParser

C16_Witness ==
    /\ trial.stage = "UserWarning"
    /\ candidate.groups < Len(candidate.vars)
    /\ pc = "header"

\* C19 as stated: a matcher with both end and match set that matches a line
\* assigns its captured fields, sets the named flag to true on the object
\* and signals the end of the item; the flag is not skipped.
C19_Original_EndMatcherSetsFlag ==
    (/\ trial.stage = "called"
     /\ Search(candidate, trial.line)
     /\ candidate.end
     /\ candidate.match # None) =>
        /\ trial.result = "EndOfItem"
        /\ \A g \in 1..candidate.groups :
              (\A h \in (g + 1)..candidate.groups :
                    candidate.vars[h] # candidate.vars[g])
                 => GetAttr(trial.obj, candidate.vars[g])
                        = PyStr(trial.line.caps[g])
        /\ GetAttr(trial.obj, "converged")
              = PyBool(candidate.match = "converged")

====
